---- MODULE Spec2Model ----
(***************************************************************************)
(* PrivAccess: Schnorr prover (static/js/main.js), geohash encoder and     *)
(* proof orchestrator (static/js/geohash_zkp.js) and the geofence circuit  *)
(* (zkp_circom/geohash_prefix.circom).                                     *)
(*                                                                         *)
(* JavaScript strings are modelled as sequences of one-character strings.  *)
(* BigInt values are modelled as integers; the group parameters are small  *)
(* safe-prime groups instead of the 2048-bit group of the source.          *)
(***************************************************************************)
EXTENDS Integers, Sequences, FiniteSets, TLC

VARIABLES
    \* ---- Schnorr prover and verifier ----
    grp,          \* the group parameters P, G, Q
    privateKey,   \* SchnorrProverJS.privateKey
    publicKey,    \* SchnorrProverJS.publicKey
    proverState,  \* "Idle" | "Complete" | "Failed" (sha256 threw)
    nonce,        \* r of the last generateProof call
    randomDraw,   \* the 32 random bytes of the last call, as an integer
    prevCall,     \* history: nonce, random bytes and commitment of the call
                  \* before the last one (nonce 0: there was none)
    lastProof,    \* the object returned by the last generateProof call
    presented,    \* the proof last handed to the verifier
    tamper,       \* how it differs from lastProof: "none" | "context" | "response"
    verdict,      \* "none" | "accept" | "reject" | "malformed"
    \* ---- geohash encoder ----
    enc,          \* the last computeGeohash calls: inputs and results
    \* ---- geofence circuit ----
    circuit,      \* the signals of the last GeoHashPrefixCheck(6) witness
    \* ---- powerMod, statement by statement ----
    pm,           \* arguments, locals and iteration count of a powerMod call
    \* ---- proof orchestrator ----
    att,          \* per runGeohashZKP attempt: position, locals, payload
    debugStep,    \* innerText of the shared #debug-step element
    view          \* the view last shown by showView

schnorrVars == <<grp, privateKey, publicKey, proverState, nonce, randomDraw,
                 prevCall, lastProof, presented, tamper, verdict>>

orchVars == <<att, debugStep, view>>

vars == <<schnorrVars, enc, circuit, pm, orchVars>>

(***************************************************************************)
(* Bounds of the model.                                                    *)
(***************************************************************************)
\* the random bytes are drawn from 0..MaxRand
MaxRand == 10
\* sha256 is modelled as a hash into 0..HashSpace-1
HashSpace == 65521

(***************************************************************************)
(* Characters and strings.                                                 *)
(***************************************************************************)
Digit == <<"0", "1", "2", "3", "4", "5", "6", "7", "8", "9">>
Lower == <<"a", "b", "c", "d", "e", "f", "g", "h", "i", "j", "k", "l", "m",
           "n", "o", "p", "q", "r", "s", "t", "u", "v", "w", "x", "y", "z">>
\* a character outside Latin-1
Euro == "EURO"

IndexOf(seq, x) == CHOOSE i \in 1..Len(seq) : seq[i] = x

Chars == {Digit[i] : i \in 1..Len(Digit)} \cup {Lower[i] : i \in 1..Len(Lower)}
            \cup {Euro}

\* the character codes: "0" is 48, "a" is 97, the euro sign is 8364
CharCodes ==
    [ch \in Chars |->
        IF \E i \in 1..Len(Digit) : Digit[i] = ch THEN 47 + IndexOf(Digit, ch)
        ELSE IF \E i \in 1..Len(Lower) : Lower[i] = ch THEN 96 + IndexOf(Lower, ch)
        ELSE 8364]

\* String.prototype.charCodeAt(0) of a one-character string
charCodeAt(ch) == CharCodes[ch]

\* String.prototype.substring(0, n)
substring(str, n) == SubSeq(str, 1, IF Len(str) < n THEN Len(str) ELSE n)

\* BigInt.prototype.toString(): decimal digits, no leading zero
RECURSIVE toString(_)
toString(n) ==
    IF n < 10 THEN <<Digit[n + 1]>>
    ELSE toString(n \div 10) \o <<Digit[(n % 10) + 1]>>

\* BigInt(str) of a decimal string
RECURSIVE BigInt(_)
BigInt(str) ==
    IF str = <<>> THEN 0
    ELSE 10 * BigInt(SubSeq(str, 1, Len(str) - 1))
         + (charCodeAt(str[Len(str)]) - 48)

(***************************************************************************)
(* Group parameters.  The source fixes P (RFC 3526 group 14), G = 2 and    *)
(* Q = (P - 1) / 2; there 2 has order Q.  CodeGroups are small groups of   *)
(* the same shape (P = 2Q + 1 prime, G = 2 of order Q); ScenarioGroup is   *)
(* the parameter set of the specification's small-group scenario.          *)
(***************************************************************************)
CodeGroups == {[P |-> 7, G |-> 2, Q |-> 3], [P |-> 23, G |-> 2, Q |-> 11]}
ScenarioGroup == [P |-> 23, G |-> 5, Q |-> 11]
Scenario == [group |-> ScenarioGroup, x |-> 6]

\* Modular exponentiation, the loop of powerMod as a recursion on
\* (result, base, exp)
RECURSIVE powerModLoop(_, _, _, _)
powerModLoop(result, base, exp, mod) ==
    IF exp > 0
    THEN powerModLoop(IF exp % 2 = 1 THEN (result * base) % mod ELSE result,
                      (base * base) % mod, exp \div 2, mod)
    ELSE result

\* powerMod with the base squared before the first multiplication
powerModSquareFirst(base, exp, mod) ==
    powerModLoop(1, (base * base) % mod, exp, mod)

powerMod(base, exp, mod) == powerModLoop(1, base % mod, exp, mod)

(***************************************************************************)
(* powerMod run statement by statement: the call, each turn of the while   *)
(* loop, and the return.                                                   *)
(***************************************************************************)
\* the arguments of the call: base in 0..MaxBase, exp in 0..MaxExp and
\* mod in 2..MaxMod
MaxBase == 9
MaxExp == 12
MaxMod == 7

\* the loop body with the base squared before the multiplication
powerModBodySquareFirst(st) ==
    LET squared == (st.base * st.base) % st.mod
    IN [st EXCEPT !.result = IF st.exp % 2 = 1 THEN (st.result * squared) % st.mod
                             ELSE st.result,
                  !.exp = st.exp \div 2,
                  !.base = squared,
                  !.iterations = @ + 1]

\* one turn of the while loop
powerModBody(st) ==
    [st EXCEPT !.result = IF st.exp % 2 = 1 THEN (st.result * st.base) % st.mod
                          ELSE st.result,
               !.exp = st.exp \div 2,
               !.base = (st.base * st.base) % st.mod,
               !.iterations = @ + 1]

\* let result = 1n; base = base % mod;
PowerModCall(base, exp, mod) ==
    /\ pm.pc = "idle"
    /\ pm' = [pc |-> "loop", args |-> [base |-> base, exp |-> exp, mod |-> mod],
              result |-> 1, base |-> base % mod, exp |-> exp, mod |-> mod,
              iterations |-> 0]
    /\ UNCHANGED <<schnorrVars, enc, circuit, orchVars>>

\* while (exp > 0n) { ... }
PowerModIterate ==
    /\ pm.pc = "loop"
    /\ pm.exp > 0
    /\ pm' = powerModBody(pm)
    /\ UNCHANGED <<schnorrVars, enc, circuit, orchVars>>

\* return result;
PowerModReturn ==
    /\ pm.pc = "loop"
    /\ ~(pm.exp > 0)
    /\ pm' = [pm EXCEPT !.pc = "returned"]
    /\ UNCHANGED <<schnorrVars, enc, circuit, orchVars>>


(***************************************************************************)
(* sha256_sync and sha256: a deterministic hash of the character codes.    *)
(* sha256_sync returns undefined when a character code exceeds 255, and    *)
(* BigInt("0xundefined") then throws.                                      *)
(***************************************************************************)
IsLatin1(str) == \A i \in 1..Len(str) : charCodeAt(str[i]) < 256

RECURSIVE sha256_sync(_)
sha256_sync(ascii) ==
    IF ascii = <<>> THEN 7
    ELSE (sha256_sync(SubSeq(ascii, 1, Len(ascii) - 1)) * 31
          + charCodeAt(ascii[Len(ascii)])) % HashSpace

sha256(message) == sha256_sync(message)

(***************************************************************************)
(* SchnorrProverJS.generateProof                                           *)
(***************************************************************************)
\* the nonce reduced modulo Q instead of Q - 1
drawNonceModQ(g, rand) == (rand % g.Q) + 1

\* a nonce drawn from 0..Q-1
drawNonceFromZero(g, rand) == rand % g.Q

\* the nonce drawn from the 32 random bytes
drawNonce(g, rand) == (rand % (g.Q - 1)) + 1

\* the challenge input without the context
challengeInputNoContext(R, y, geohash) == toString(R) \o toString(y)

\* the string hashed into the challenge
challengeInput(R, y, geohash) ==
    toString(R) \o toString(y) \o substring(geohash, 6)

challenge(g, R, y, geohash) == sha256(challengeInput(R, y, geohash)) % g.Q

\* the response without the reduction modulo Q
responseUnreduced(g, r, c, x) == r + c * x

\* the response s
response(g, r, c, x) == (r + c * x) % g.Q

\* the returned proof object
makeProof(g, x, y, r, geohash) ==
    LET R == powerMod(g.G, r, g.P)
        c == challenge(g, R, y, geohash)
        s == response(g, r, c, x)
    IN [public_key |-> toString(y), commitment |-> toString(R),
        response |-> toString(s), geohash |-> geohash]

NoProof == [public_key |-> <<>>, commitment |-> <<>>, response |-> <<>>,
            geohash |-> <<>>]

\* the geohash strings handed to generateProof
Ctx6 == <<"t", "1", "q", "7", "h", "k">>
Ctx7 == Ctx6 \o <<"f">>
CtxEuro == <<"t", Euro, "q">>
Contexts == {Ctx6, Ctx7, Ctx6 \o <<"g">>,
             <<"t", "1", "q", "7", "h", "m">>, <<"9", "q">>, CtxEuro}

generateProof(geohash, rand) ==
    /\ randomDraw' = rand
    /\ nonce' = drawNonce(grp, rand)
    /\ presented' = NoProof
    /\ tamper' = "none"
    /\ verdict' = "none"
    /\ IF IsLatin1(challengeInput(powerMod(grp.G, nonce', grp.P), publicKey, geohash))
       THEN /\ lastProof' = makeProof(grp, privateKey, publicKey, nonce', geohash)
            /\ proverState' = "Complete"
       ELSE \* sha256 throws: no proof is returned
            /\ lastProof' = NoProof
            /\ proverState' = "Failed"
    /\ UNCHANGED <<grp, privateKey, publicKey>>
    /\ UNCHANGED <<enc, circuit, pm, orchVars>>

(***************************************************************************)
(* The verifier: a pure function of (proof, GroupParameters).             *)
(***************************************************************************)
InRange(g, R, y, s) ==
    /\ R >= 1 /\ R <= g.P - 1
    /\ y >= 1 /\ y <= g.P - 1
    /\ s >= 0 /\ s <= g.Q - 1
    /\ powerMod(y, g.Q, g.P) = 1

verify(g, proof) ==
    LET R == BigInt(proof.commitment)
        y == BigInt(proof.public_key)
        s == BigInt(proof.response)
        c == challenge(g, R, y, proof.geohash)
    IN IF ~InRange(g, R, y, s) THEN "malformed"
       ELSE IF powerMod(g.G, s, g.P) = (R * powerMod(y, c, g.P)) % g.P
            THEN "accept"
            ELSE "reject"

\* the last proof is handed to the verifier as it is
VerifyProof ==
    /\ proverState = "Complete"
    /\ presented' = lastProof
    /\ tamper' = "none"
    /\ verdict' = verify(grp, lastProof)
    /\ UNCHANGED <<grp, privateKey, publicKey, proverState, nonce, randomDraw,
                   prevCall, lastProof>>
    /\ UNCHANGED <<enc, circuit, pm, orchVars>>

\* the last proof is handed to the verifier with another context
VerifyReplayed(ctx) ==
    /\ proverState = "Complete"
    /\ ctx # lastProof.geohash
    /\ IsLatin1(ctx)
    /\ presented' = [lastProof EXCEPT !.geohash = ctx]
    /\ tamper' = "context"
    /\ verdict' = verify(grp, presented')
    /\ UNCHANGED <<grp, privateKey, publicKey, proverState, nonce, randomDraw,
                   prevCall, lastProof>>
    /\ UNCHANGED <<enc, circuit, pm, orchVars>>

\* the last proof is handed to the verifier with its response s replaced by s + 1
VerifyMutated ==
    /\ proverState = "Complete"
    /\ presented' = [lastProof EXCEPT
                        !.response = toString(BigInt(lastProof.response) + 1)]
    /\ tamper' = "response"
    /\ verdict' = verify(grp, presented')
    /\ UNCHANGED <<grp, privateKey, publicKey, proverState, nonce, randomDraw,
                   prevCall, lastProof>>
    /\ UNCHANGED <<enc, circuit, pm, orchVars>>

NoCall == [nonce |-> 0, draw |-> 0, commitment |-> <<>>]

\* generateProof, the history of calls not recorded
Prove(geohash, rand) ==
    /\ generateProof(geohash, rand)
    /\ UNCHANGED prevCall

\* generateProof, the previous call kept as history
ProveAgain(geohash, rand) ==
    /\ generateProof(geohash, rand)
    /\ prevCall' = [nonce |-> nonce, draw |-> randomDraw,
                    commitment |-> lastProof.commitment]

SchnorrInit ==
    /\ \/ /\ grp \in CodeGroups
          /\ privateKey \in 1..(grp.Q - 1)
       \/ /\ grp = Scenario.group
          /\ privateKey = Scenario.x
    /\ publicKey = powerMod(grp.G, privateKey, grp.P)
    /\ proverState = "Idle"
    /\ nonce = 0
    /\ randomDraw = 0
    /\ prevCall = NoCall
    /\ lastProof = NoProof
    /\ presented = NoProof
    /\ tamper = "none"
    /\ verdict = "none"
    \* the encoder, the circuit and the orchestrator are not used
    /\ pm = [pc |-> "idle"]
    /\ enc = [done |-> FALSE]
    /\ circuit = [done |-> FALSE]
    /\ att = <<>>
    /\ debugStep = ""
    /\ view = ""

SchnorrNext ==
    \/ \E geohash \in Contexts, rand \in 0..MaxRand : Prove(geohash, rand)
    \/ VerifyProof
    \/ \E ctx \in Contexts : VerifyReplayed(ctx)
    \/ VerifyMutated

\* prover and verifier
SpecSchnorr ==
    /\ SchnorrInit
    /\ [][SchnorrNext]_vars

NonceNext ==
    \E geohash \in {Ctx6, Ctx7}, rand \in 0..MaxRand : ProveAgain(geohash, rand)

\* the prover called again and again with the same key
SpecNonce ==
    /\ SchnorrInit
    /\ [][NonceNext]_vars

PowerModInit ==
    /\ pm = [pc |-> "idle"]
    \* the prover is constructed and stays idle; the rest is unused
    /\ grp = [P |-> 23, G |-> 2, Q |-> 11]
    /\ privateKey = 1
    /\ publicKey = powerMod(grp.G, privateKey, grp.P)
    /\ proverState = "Idle"
    /\ nonce = 0
    /\ randomDraw = 0
    /\ prevCall = NoCall
    /\ lastProof = NoProof
    /\ presented = NoProof
    /\ tamper = "none"
    /\ verdict = "none"
    /\ enc = [done |-> FALSE]
    /\ circuit = [done |-> FALSE]
    /\ att = <<>>
    /\ debugStep = ""
    /\ view = ""

PowerModNext ==
    \/ \E base \in 0..MaxBase, exp \in 0..MaxExp, mod \in 2..MaxMod :
           PowerModCall(base, exp, mod)
    \/ PowerModIterate
    \/ PowerModReturn

\* one call of powerMod
SpecPowerMod ==
    /\ PowerModInit
    /\ [][PowerModNext]_vars

(***************************************************************************)
(* computeGeohash.  Coordinates are in eighths of a degree.  Every         *)
(* bisection doubles the unit of the axis it bisects, so that the midpoint *)
(* (min + max) / 2 of the source is the integer min + max; the doubles of  *)
(* the source hold these dyadic values exactly.                            *)
(***************************************************************************)
\* the most characters asked of computeGeohash
MaxPrecision == 7

B32 == <<"0", "1", "2", "3", "4", "5", "6", "7", "8", "9", "b", "c", "d", "e",
         "f", "g", "h", "j", "k", "m", "n", "p", "q", "r", "s", "t", "u", "v",
         "w", "x", "y", "z">>

\* the locals of computeGeohash before the loop
geohashStart(lat, lon) ==
    [hash |-> <<>>, minLat |-> -720, maxLat |-> 720,
     minLon |-> -1440, maxLon |-> 1440, lat |-> lat, lon |-> lon,
     bit |-> 0, ch |-> 0, is_even |-> TRUE, bisections |-> 0]

\* one bisection: of the longitude when is_even, of the latitude otherwise
bisect(st) ==
    IF st.is_even
    THEN LET mid == st.minLon + st.maxLon
             lon == 2 * st.lon
         IN IF lon >= mid
            THEN [st EXCEPT !.ch = @ + 2 ^ (4 - st.bit), !.minLon = mid,
                            !.maxLon = 2 * @, !.lon = lon,
                            !.is_even = FALSE, !.bisections = @ + 1]
            ELSE [st EXCEPT !.maxLon = mid, !.minLon = 2 * @, !.lon = lon,
                            !.is_even = FALSE, !.bisections = @ + 1]
    ELSE LET mid == st.minLat + st.maxLat
             lat == 2 * st.lat
         IN IF lat >= mid
            THEN [st EXCEPT !.ch = @ + 2 ^ (4 - st.bit), !.minLat = mid,
                            !.maxLat = 2 * @, !.lat = lat,
                            !.is_even = TRUE, !.bisections = @ + 1]
            ELSE [st EXCEPT !.maxLat = mid, !.minLat = 2 * @, !.lat = lat,
                            !.is_even = TRUE, !.bisections = @ + 1]

\* the next bit, or the character of five bits appended to the hash
emit(st) ==
    IF st.bit < 4
    THEN [st EXCEPT !.bit = @ + 1]
    ELSE [st EXCEPT !.hash = @ \o <<B32[st.ch + 1]>>, !.bit = 0, !.ch = 0]

\* the character put in front of the hash
emitInFront(st) ==
    IF st.bit < 4
    THEN [st EXCEPT !.bit = @ + 1]
    ELSE [st EXCEPT !.hash = <<B32[st.ch + 1]>> \o @, !.bit = 0, !.ch = 0]

\* the loop body with the character put in front
geohashStepInFront(st) == emitInFront(bisect(st))

\* the body of the while loop
geohashStep(st) == emit(bisect(st))

RECURSIVE geohashLoop(_, _)
geohashLoop(st, precision) ==
    IF Len(st.hash) < precision
    THEN geohashLoop(geohashStep(st), precision)
    ELSE st

\* the loop run for one character more
geohashRunOneMore(lat, lon, precision) ==
    geohashLoop(geohashStart(lat, lon), precision + 1)

\* the locals of computeGeohash when the loop has ended
geohashRun(lat, lon, precision) ==
    geohashLoop(geohashStart(lat, lon), precision)

computeGeohash(lat, lon, precision) == geohashRun(lat, lon, precision).hash

\* latitudes in [-90, 90] and longitudes in [-180, 180], in eighths of a degree
Latitudes == {-720, -361, -1, 0, 1, 302, 720}
Longitudes == {-1440, -979, -1, 0, 1, 617, 1440}

\* one call of computeGeohash(lat, lon, precision) and, for the same
\* coordinate, one of computeGeohash(lat, lon, k)
Encode(lat, lon, precision, k) ==
    /\ ~enc.done
    /\ enc' = [done |-> TRUE, lat |-> lat, lon |-> lon,
               precision |-> precision, k |-> k,
               hash |-> computeGeohash(lat, lon, precision),
               bisections |-> geohashRun(lat, lon, precision).bisections,
               prefix |-> computeGeohash(lat, lon, k)]
    /\ UNCHANGED <<schnorrVars, circuit, pm, orchVars>>

EncNext ==
    \E lat \in Latitudes, lon \in Longitudes, precision \in 1..MaxPrecision :
        \E k \in 1..precision : Encode(lat, lon, precision, k)

\* the geohash encoder
EncInit ==
    /\ enc = [done |-> FALSE]
    \* the prover is constructed and stays idle; circuit and orchestrator unused
    /\ grp = [P |-> 23, G |-> 2, Q |-> 11]
    /\ privateKey = 1
    /\ publicKey = powerMod(grp.G, privateKey, grp.P)
    /\ proverState = "Idle"
    /\ nonce = 0
    /\ randomDraw = 0
    /\ prevCall = NoCall
    /\ lastProof = NoProof
    /\ presented = NoProof
    /\ tamper = "none"
    /\ verdict = "none"
    /\ pm = [pc |-> "idle"]
    /\ circuit = [done |-> FALSE]
    /\ att = <<>>
    /\ debugStep = ""
    /\ view = ""

SpecGeohash ==
    /\ EncInit
    /\ [][EncNext]_vars

(***************************************************************************)
(* geohash_prefix.circom: IsEqual and GeoHashPrefixCheck(6).  Signals are  *)
(* elements of the proving system's prime field; the values met here stay  *)
(* far below the field's 254-bit prime in absolute value, so a signal is 0 *)
(* or 1 in the field exactly when the integer below is, and a negative     *)
(* integer v stands for the field element p + v.                           *)
(***************************************************************************)
\* the most a character code of userHash is moved away from allowedPrefix
MaxDelta == 3

\* component main = GeoHashPrefixCheck(6)
CircuitN == 6

\* out without the square
IsEqualUnsquared(in0, in1) ==
    LET diff == in0 - in1
    IN 1 - diff

\* template IsEqual: out <== 1 - diff * diff
IsEqual(in0, in1) ==
    LET diff == in0 - in1
    IN 1 - diff * diff

\* the product of prefixMatch[0 .. n-1], from var total = 1
RECURSIVE totalLoop(_, _, _)
totalLoop(prefixMatch, i, total) ==
    IF i <= Len(prefixMatch)
    THEN totalLoop(prefixMatch, i + 1, total * prefixMatch[i])
    ELSE total

\* the reduction started from 0
totalFromZero(prefixMatch) == totalLoop(prefixMatch, 1, 0)

\* the reduction of prefixMatch to a single signal
totalOf(prefixMatch) == totalLoop(prefixMatch, 1, 1)

\* template GeoHashPrefixCheck(n): the signals of a witness
GeoHashPrefixCheck(userHash, allowedPrefix) ==
    LET prefixMatch == [i \in 1..CircuitN |->
                           IsEqual(userHash[i], allowedPrefix[i])]
    IN [userHash |-> userHash, allowedPrefix |-> allowedPrefix,
        prefixMatch |-> prefixMatch, isValid |-> totalOf(prefixMatch)]

\* the character codes of a string
codesOf(str) == [i \in 1..Len(str) |-> charCodeAt(str[i])]

\* allowedPrefix, and userHash moved away from it at up to two positions
CircuitInputs ==
    {[allowedPrefix |-> codesOf(Ctx6),
      userHash |-> [k \in 1..CircuitN |->
                      codesOf(Ctx6)[k] + (IF k = i THEN d ELSE 0)
                                       + (IF k = j THEN e ELSE 0)]] :
        i \in 1..CircuitN, j \in 1..CircuitN,
        d \in (0 - MaxDelta)..MaxDelta, e \in (0 - MaxDelta)..MaxDelta}

\* the witness of the circuit is computed for one input
ComputeWitness(input) ==
    /\ ~circuit.done
    /\ circuit' = [done |-> TRUE,
                   signals |-> GeoHashPrefixCheck(input.userHash,
                                                  input.allowedPrefix)]
    /\ UNCHANGED <<schnorrVars, enc, pm, orchVars>>

CircuitNext == \E input \in CircuitInputs : ComputeWitness(input)

\* the geofence circuit
CircuitInit ==
    /\ circuit = [done |-> FALSE]
    \* the prover is constructed and stays idle; encoder and orchestrator unused
    /\ grp = [P |-> 23, G |-> 2, Q |-> 11]
    /\ privateKey = 1
    /\ publicKey = powerMod(grp.G, privateKey, grp.P)
    /\ proverState = "Idle"
    /\ nonce = 0
    /\ randomDraw = 0
    /\ prevCall = NoCall
    /\ lastProof = NoProof
    /\ presented = NoProof
    /\ tamper = "none"
    /\ verdict = "none"
    /\ pm = [pc |-> "idle"]
    /\ enc = [done |-> FALSE]
    /\ att = <<>>
    /\ debugStep = ""
    /\ view = ""

SpecCircuit ==
    /\ CircuitInit
    /\ [][CircuitNext]_vars

(***************************************************************************)
(* runGeohashZKP.  An attempt is suspended at its awaits: the location     *)
(* request, snarkjs.groth16.fullProve, the fallback delay and axios.post.  *)
(* Each action runs an attempt from one await to the next.                 *)
(***************************************************************************)
\* the number of runGeohashZKP attempts that may be under way together
NumAttempts == 2

Attempts == 1..NumAttempts

\* the allowedPrefix arguments: the geofence of the first coordinate, the
\* same with a seventh character, and one of fewer than six characters
AllowedPrefixes == {<<"9", "q", "8", "y", "z", "2">>,
                    <<"9", "q", "8", "y", "z", "2", "1">>, <<"9", "q", "8">>}

\* the coordinates the geolocation source answers with
Coordinates == {[lat |-> 302, lon |-> -979], [lat |-> -361, lon |-> 617]}

\* the ways the location request fails
LocationErrors == {"Timeout expired", "User denied Geolocation"}

\* let payload = {}
EmptyPayload == <<>>

\* an attempt not started
IdleAttempt ==
    [pc |-> "idle", allowedPrefix |-> <<>>, lat |-> 0, lon |-> 0,
     userHashStr |-> <<>>, engine |-> "notRun", payload |-> EmptyPayload,
     posted |-> FALSE, error |-> ""]

\* Array.from(str).slice(0, n).map(c => c.charCodeAt(0))
codeArray(str, n) == codesOf(substring(str, n))

\* the public signal of the proof, as snarkjs prints it: "1", "0", or
\* another field element
publicSignalOf(input) ==
    LET out == [i \in 1..CircuitN |->
                   IsEqual(input.userHash[i], input.allowedPrefix[i])]
    IN IF \E i \in 1..CircuitN : out[i] = 0 THEN "0"
       ELSE IF \A i \in 1..CircuitN : out[i] = 1 THEN "1"
       ELSE "p-k"

\* a payload built from the inputs of attempt 1, as if the inputs were kept
\* in a variable that all attempts share
realPayloadOfFirst(input) ==
    LET shared == IF Len(att[1].userHashStr) < CircuitN
                     \/ Len(att[1].allowedPrefix) < CircuitN THEN input
                  ELSE [userHash |-> codeArray(att[1].userHashStr, CircuitN),
                        allowedPrefix |-> codeArray(att[1].allowedPrefix, CircuitN)]
    IN [proof |-> "groth16", publicSignals |-> <<publicSignalOf(shared)>>]

\* payload = { proof, publicSignals }
realPayload(input) ==
    [proof |-> "groth16", publicSignals |-> <<publicSignalOf(input)>>]

\* a fallback payload with the fields of a real one
lookalikePayload(userHashStr, allowedPrefix) ==
    [proof |-> "demo", publicSignals |-> <<"1">>]

\* payload = { demo: true, userHash: userHashStr, allowedPrefix }
demoPayload(userHashStr, allowedPrefix) ==
    [demo |-> TRUE, userHash |-> userHashStr, allowedPrefix |-> allowedPrefix]

\* a catch block that asks for the location again
CaughtAndRetry(a, message) ==
    /\ att' = [att EXCEPT ![a].pc = "locating", ![a].error = message]
    /\ view' = "error-view"

\* the catch block of runGeohashZKP
Caught(a, message) ==
    /\ att' = [att EXCEPT ![a].pc = "error", ![a].error = message]
    /\ view' = "error-view"

\* runGeohashZKP(allowedPrefix), up to the location request
Start(a, allowedPrefix) ==
    /\ att[a].pc = "idle"
    /\ att' = [att EXCEPT ![a].pc = "locating",
                          ![a].allowedPrefix = allowedPrefix]
    /\ view' = "processing-view"
    /\ debugStep' = "Accessing GPS Location..."
    /\ UNCHANGED <<schnorrVars, enc, circuit, pm>>

\* the location request fails: timeout or permission denied
LocationFailed(a, message) ==
    /\ att[a].pc = "locating"
    /\ Caught(a, message)
    /\ UNCHANGED debugStep
    /\ UNCHANGED <<schnorrVars, enc, circuit, pm>>

\* the location request resolves: geohash, inputs of the circuit, length
\* check, and the call of the proving engine
LocationFound(a, pos) ==
    /\ att[a].pc = "locating"
    /\ LET userHashStr == computeGeohash(pos.lat, pos.lon, 7)
           userHashArr == codeArray(userHashStr, CircuitN)
           allowedPrefixArr == codeArray(att[a].allowedPrefix, CircuitN)
       IN IF Len(userHashArr) < CircuitN \/ Len(allowedPrefixArr) < CircuitN
          THEN /\ att' = [att EXCEPT ![a].pc = "error",
                                     ![a].lat = pos.lat, ![a].lon = pos.lon,
                                     ![a].userHashStr = userHashStr,
                                     ![a].error = "Invalid prefix or hash length"]
               /\ view' = "error-view"
               /\ debugStep' = "Computing Geohash..."
          ELSE /\ att' = [att EXCEPT ![a].pc = "proving",
                                     ![a].lat = pos.lat, ![a].lon = pos.lon,
                                     ![a].userHashStr = userHashStr]
               /\ debugStep' = "Generating ZK Proof (Groth16)..."
               /\ UNCHANGED view
    /\ UNCHANGED <<schnorrVars, enc, circuit, pm>>

\* fullProve resolves: the real payload is posted
EngineSucceeded(a) ==
    /\ att[a].pc = "proving"
    /\ att' = [att EXCEPT
                  ![a].pc = "submitting", ![a].engine = "ok",
                  ![a].payload =
                      realPayload([userHash |-> codeArray(att[a].userHashStr, CircuitN),
                                   allowedPrefix |-> codeArray(att[a].allowedPrefix, CircuitN)]),
                  ![a].posted = TRUE]
    /\ debugStep' = "Verifying Proof on Server..."
    /\ UNCHANGED view
    /\ UNCHANGED <<schnorrVars, enc, circuit, pm>>

\* fullProve rejects: the attempt waits 1500 ms
EngineFailed(a) ==
    /\ att[a].pc = "proving"
    /\ att' = [att EXCEPT ![a].pc = "fallback", ![a].engine = "failed"]
    /\ debugStep' = "Generating Simulated ZK Proof (Demo Mode)..."
    /\ UNCHANGED view
    /\ UNCHANGED <<schnorrVars, enc, circuit, pm>>

\* the delay has passed: the demo payload is posted
FallbackElapsed(a) ==
    /\ att[a].pc = "fallback"
    /\ att' = [att EXCEPT
                  ![a].pc = "submitting",
                  ![a].payload = demoPayload(att[a].userHashStr,
                                             att[a].allowedPrefix),
                  ![a].posted = TRUE]
    /\ debugStep' = "Verifying Proof on Server..."
    /\ UNCHANGED view
    /\ UNCHANGED <<schnorrVars, enc, circuit, pm>>

\* axios.post resolves with status 200
ServerAccepted(a) ==
    /\ att[a].pc = "submitting"
    /\ att' = [att EXCEPT ![a].pc = "success"]
    /\ view' = "success-view"
    /\ UNCHANGED debugStep
    /\ UNCHANGED <<schnorrVars, enc, circuit, pm>>

\* axios.post rejects, or resolves with another status than 200
ServerRefused(a, message) ==
    /\ att[a].pc = "submitting"
    /\ Caught(a, message)
    /\ UNCHANGED debugStep
    /\ UNCHANGED <<schnorrVars, enc, circuit, pm>>

OrchInit ==
    /\ att = [a \in Attempts |-> IdleAttempt]
    /\ debugStep = ""
    /\ view = ""
    \* the Schnorr prover is constructed and stays idle; encoder and circuit unused
    /\ grp = [P |-> 23, G |-> 2, Q |-> 11]
    /\ privateKey = 1
    /\ publicKey = powerMod(grp.G, privateKey, grp.P)
    /\ proverState = "Idle"
    /\ nonce = 0
    /\ randomDraw = 0
    /\ prevCall = NoCall
    /\ lastProof = NoProof
    /\ presented = NoProof
    /\ tamper = "none"
    /\ verdict = "none"
    /\ pm = [pc |-> "idle"]
    /\ enc = [done |-> FALSE]
    /\ circuit = [done |-> FALSE]

OrchNext ==
    \E a \in Attempts :
        \/ \E allowedPrefix \in AllowedPrefixes : Start(a, allowedPrefix)
        \/ \E message \in LocationErrors : LocationFailed(a, message)
        \/ \E pos \in Coordinates : LocationFound(a, pos)
        \/ EngineSucceeded(a)
        \/ EngineFailed(a)
        \/ FallbackElapsed(a)
        \/ ServerAccepted(a)
        \/ \E message \in {"Request failed with status code 403",
                            "Verification Failed on Server"} :
               ServerRefused(a, message)

\* the proof orchestrator
Spec ==
    /\ OrchInit
    /\ [][OrchNext]_vars

(***************************************************************************)
(* Properties of the Schnorr prover and verifier.                         *)
(***************************************************************************)
\* g^k mod p by repeated multiplication
RECURSIVE Power(_, _, _)
Power(g, k, p) == IF k = 0 THEN 1 % p ELSE (g * Power(g, k - 1, p)) % p

\* G has multiplicative order exactly Q modulo P
HasOrderQ(g) ==
    /\ Power(g.G, g.Q, g.P) = 1
    /\ \A k \in 1..(g.Q - 1) : Power(g.G, k, g.P) # 1

\* the verifier has decided on the proof exactly as generateProof returned it
VerifiedAsReturned == tamper = "none" /\ verdict # "none"

VerifiedReplayed == tamper = "context" /\ verdict # "none"

\* H(R || y || C) mod Q with C the first six characters of the context
BoundChallenge(g, proof) ==
    sha256(proof.commitment \o proof.public_key \o substring(proof.geohash, 6))
        % g.Q

InScenario(G) ==
    /\ grp = [P |-> 23, G |-> G, Q |-> 11]
    /\ privateKey = 6
    /\ verdict # "none"

\* C3 as claimed (small-group scenario): with P = 23, G = 5, Q = 11, x = 6,
\* for every nonce r in [1, 10] and every context the proof is accepted, and
\* the same proof with s replaced by s + 1 is rejected.
C3_ScenarioG5 ==
    InScenario(5) =>
        /\ tamper = "none" => verdict = "accept"
        /\ tamper = "response" => verdict # "accept"

\* r + c * x of the last proof, before the reduction modulo Q
UnreducedResponse ==
    nonce + BoundChallenge(grp, lastProof) * privateKey

\* C3 as amended: 5 has order 22 modulo 23, not 11.  With P = 23, Q = 11,
\* x = 6 and the generator G = 2 of order 11, for every nonce r in [1, 10]
\* and every context the proof is accepted and the proof with s replaced by
\* s + 1 is rejected.  With G = 5 the proof with s + 1 is rejected too, but
\* the proof itself is accepted exactly when (r + c * x) div Q is even.
C3_ScenarioOrder11 ==
    /\ InScenario(2) =>
          /\ tamper = "none" => verdict = "accept"
          /\ tamper = "response" => verdict # "accept"
    /\ InScenario(5) =>
          /\ tamper = "none" =>
                (verdict = "accept" <=> (UnreducedResponse \div 11) % 2 = 0)
          /\ tamper = "response" => verdict # "accept"

\* with G = 2 and x = 6 a proof was accepted, with s + 1 in range it was
\* rejected
C3_Witness ==
    /\ InScenario(2)
    /\ tamper = "response"
    /\ verdict = "reject"

\* two calls have been made with the same key
TwoCalls == prevCall.nonce # 0

\* C4 as claimed (nonce non-repetition): no two generateProof calls with the
\* same key use the same nonce, so no two proofs carry the same commitment.
C4_NonceNeverRepeats ==
    TwoCalls =>
        /\ nonce # prevCall.nonce
        /\ (proverState = "Complete" /\ prevCall.commitment # <<>>)
              => lastProof.commitment # prevCall.commitment

\* C4 as amended: the prover keeps no record of the nonces it used.  Two
\* calls use the same nonce exactly when their random bytes are equal
\* modulo Q - 1, and two proofs carry the same commitment exactly when the
\* calls used the same nonce.
C4_NonceRepeatsWithDraw ==
    TwoCalls =>
        /\ nonce = prevCall.nonce
              <=> randomDraw % (grp.Q - 1) = prevCall.draw % (grp.Q - 1)
        /\ (proverState = "Complete" /\ prevCall.commitment # <<>>)
              => (lastProof.commitment = prevCall.commitment
                    <=> nonce = prevCall.nonce)

\* two proofs with different random bytes and different commitments
C4_Witness ==
    /\ TwoCalls
    /\ proverState = "Complete" /\ prevCall.commitment # <<>>
    /\ randomDraw # prevCall.draw
    /\ lastProof.commitment # prevCall.commitment

(***************************************************************************)
(* Properties of the geohash encoder.                                      *)
(***************************************************************************)
\* C5 (prefix stability): for every lat in [-90, 90], lon in [-180, 180] and
\* positive k <= n, the first k characters of computeGeohash(lat, lon, n)
\* are computeGeohash(lat, lon, k); so the six characters sliced from the
\* precision-7 fingerprint are the precision-6 fingerprint.
C5_PrefixStable ==
    enc.done => SubSeq(enc.hash, 1, enc.k) = enc.prefix

\* the precision-7 fingerprint of a coordinate and its precision-6 one
C5_Witness ==
    /\ enc.done
    /\ enc.precision = 7 /\ enc.k = 6
    /\ Len(enc.hash) = 7
    /\ SubSeq(enc.hash, 1, 6) = enc.prefix

\* C6: for every lat in [-90, 90], lon in [-180, 180] and positive precision,
\* computeGeohash ends after exactly 5 * precision bisections and returns
\* precision characters, all of the 32-symbol alphabet.
C6_LengthAndAlphabet ==
    enc.done =>
        /\ enc.bisections = 5 * enc.precision
        /\ Len(enc.hash) = enc.precision
        /\ \A i \in 1..Len(enc.hash) : \E j \in 1..32 : enc.hash[i] = B32[j]

\* a fingerprint of seven characters after 35 bisections
C6_Witness ==
    /\ enc.done
    /\ enc.precision = 7
    /\ enc.bisections = 35
    /\ Len(enc.hash) = 7

(***************************************************************************)
(* Properties of the geofence circuit.                                     *)
(***************************************************************************)
\* the positions at which userHash and allowedPrefix differ
Mismatches ==
    {i \in 1..CircuitN :
        circuit.signals.userHash[i] # circuit.signals.allowedPrefix[i]}

\* the two inputs differ at position i only, there by d or by -d
DiffersOnlyAtBy(i, d) ==
    /\ circuit.done
    /\ Mismatches = {i}
    /\ circuit.signals.userHash[i] - circuit.signals.allowedPrefix[i]
            \in {d, 0 - d}

\* C7 (circuit acceptance): when userHash[i] = allowedPrefix[i] for every i,
\* every IsEqual output is 1 and isValid is 1.
C7_EqualAccepted ==
    (circuit.done /\ Mismatches = {}) =>
        /\ \A i \in 1..CircuitN : circuit.signals.prefixMatch[i] = 1
        /\ circuit.signals.isValid = 1

\* the witness of equal inputs
C7_Witness ==
    /\ circuit.done /\ Mismatches = {}
    /\ circuit.signals.isValid = 1

\* C8 (circuit rejection): when userHash and allowedPrefix differ at exactly
\* one position and the codes there differ by more than 1, isValid is 0.
C8_SingleMismatchRejected ==
    \A i \in 1..CircuitN : \A d \in 2..(2 * MaxDelta) :
        DiffersOnlyAtBy(i, d) => circuit.signals.isValid = 0

\* C9 as claimed (adjacent codes): when the inputs differ at one position
\* only and by exactly 1 there, the IsEqual output there is 1 and isValid
\* is 1.
C9_AdjacentFalseAccept ==
    \A i \in 1..CircuitN :
        DiffersOnlyAtBy(i, 1) =>
            /\ circuit.signals.prefixMatch[i] = 1
            /\ circuit.signals.isValid = 1

\* C9 as amended: when the inputs differ at one position only and by exactly
\* 1 there, the IsEqual output there is 0 and isValid is 0: adjacent codes
\* are told apart, there is no false accept.
C9_AdjacentRejected ==
    \A i \in 1..CircuitN :
        DiffersOnlyAtBy(i, 1) =>
            /\ circuit.signals.prefixMatch[i] = 0
            /\ circuit.signals.isValid = 0

\* the witness of inputs that differ by 1 at the third position
C9_Witness ==
    /\ DiffersOnlyAtBy(3, 1)
    /\ circuit.signals.isValid = 0

(***************************************************************************)
(* Properties of the proof orchestrator.                                   *)
(***************************************************************************)
\* the fields of a payload
Fields(payload) == DOMAIN payload

\* C10 (tagged fallback): a payload posted to /verify is either
\* {proof, publicSignals} without a demo flag, and then the proving engine
\* succeeded, or it has demo = true and neither proof nor publicSignals, and
\* then the proving engine failed.
C10_TaggedFallback ==
    \A a \in Attempts :
        att[a].posted =>
            \/ /\ att[a].engine = "ok"
               /\ Fields(att[a].payload) = {"proof", "publicSignals"}
            \/ /\ att[a].engine = "failed"
               /\ "demo" \in Fields(att[a].payload)
               /\ att[a].payload.demo = TRUE
               /\ "proof" \notin Fields(att[a].payload)
               /\ "publicSignals" \notin Fields(att[a].payload)

\* one attempt has posted a real proof and another a demo payload
C10_Witness ==
    \E a, b \in Attempts :
        /\ att[a].posted /\ att[a].engine = "ok"
        /\ Fields(att[a].payload) = {"proof", "publicSignals"}
        /\ att[b].posted /\ att[b].engine = "failed"
        /\ att[b].payload.demo = TRUE

(***************************************************************************)
(* Confidentiality, local failures and independence of the attempts.       *)
(***************************************************************************)
\* the fields of a payload that hold text
TextFields(payload) == DOMAIN payload \cap {"userHash", "allowedPrefix"}

\* the payload carries the geohash string or its character codes
CarriesFingerprint(payload, userHashStr) ==
    \E f \in TextFields(payload) :
        \/ payload[f] = userHashStr
        \/ codesOf(payload[f]) = codesOf(userHashStr)

\* C11 (fingerprint confidentiality): on every path of runGeohashZKP the
\* payload posted to /verify never contains the geohash string of the user
\* or its character codes.
C11_FingerprintNeverPosted ==
    \A a \in Attempts :
        att[a].posted => ~CarriesFingerprint(att[a].payload, att[a].userHashStr)

\* the errors raised before the proving engine is called
LocalErrors == LocationErrors \cup {"Invalid prefix or hash length"}

\* the attempt is over and has left nothing behind
EndedLocally(a) ==
    /\ att[a].pc = "error"
    /\ att[a].engine = "notRun"
    /\ ~att[a].posted
    /\ att[a].payload = EmptyPayload

\* fewer than six characters in the geohash or in the allowed prefix
TooShort(a) ==
    /\ att[a].userHashStr # <<>>
    /\ Len(att[a].userHashStr) < CircuitN \/ Len(att[a].allowedPrefix) < CircuitN

LocalFailureContained(a) ==
    /\ att[a].error \in LocalErrors => EndedLocally(a)
    /\ TooShort(a) => att[a].error = "Invalid prefix or hash length"

\* C12 (local failure without side effects): when the location request
\* fails, or the geohash or the allowed prefix has fewer than six characters,
\* the attempt ends with the error reported, the proving engine is never
\* called, nothing is posted to /verify, and the attempt takes no further
\* step.
C12_LocalFailure ==
    [][\A a \in Attempts :
          /\ LocalFailureContained(a)'
          /\ att[a].pc = "error" => att'[a] = att[a]]_vars

C12_Witness ==
    \E a, b \in Attempts :
        /\ att[a].pc = "error" /\ att[a].error \in LocationErrors
        /\ att[b].pc = "error" /\ TooShort(b)

\* the payload an attempt posts, from its own coordinates, allowed prefix
\* and engine outcome
OwnPayload(lat, lon, allowedPrefix, engine) ==
    LET hash == computeGeohash(lat, lon, 7)
    IN IF engine = "ok"
       THEN [proof |-> "groth16",
             publicSignals |->
                 <<publicSignalOf([userHash |-> codeArray(hash, CircuitN),
                                   allowedPrefix |-> codeArray(allowedPrefix, CircuitN)])>>]
       ELSE [demo |-> TRUE, userHash |-> hash, allowedPrefix |-> allowedPrefix]

\* C14 (independence of concurrent attempts): however two attempts are
\* interleaved at their awaits, the payload an attempt posts is a function
\* of its own coordinates, allowed prefix and engine outcome only.
C14_OwnInputsOnly ==
    \A a \in Attempts :
        att[a].posted =>
            att[a].payload = OwnPayload(att[a].lat, att[a].lon,
                                        att[a].allowedPrefix, att[a].engine)

\* both attempts have posted, from different coordinates and with different
\* engine outcomes, the second before the first
C14_Witness ==
    \E a, b \in Attempts :
        /\ a # b
        /\ att[a].posted /\ att[b].posted
        /\ att[a].lat # att[b].lat
        /\ att[a].engine = "ok" /\ att[b].engine = "failed"
        /\ att[a].payload # att[b].payload
        /\ att[a].pc = "submitting" /\ att[b].pc = "success"

(***************************************************************************)
(* Properties of powerMod.                                                 *)
(***************************************************************************)
\* the number of binary digits of n, 0 for n = 0
BitLength(n) ==
    CHOOSE k \in 0..30 : (2^k > n) /\ (k = 0 \/ 2^(k - 1) <= n)

\* C13: for every base >= 0, exp >= 0 and mod > 1, powerMod returns
\* (base^exp) mod mod, and its loop ends after as many turns as exp has
\* binary digits.
C13_PowerModCorrect ==
    pm.pc = "returned" =>
        /\ pm.result = Power(pm.args.base, pm.args.exp, pm.args.mod)
        /\ pm.result = powerMod(pm.args.base, pm.args.exp, pm.args.mod)
        /\ pm.iterations = BitLength(pm.args.exp)

\* a call with a base above the modulus and an exponent of four binary
\* digits, some of them 0, has returned
C13_Witness ==
    /\ pm.pc = "returned"
    /\ pm.args = [base |-> 9, exp |-> 10, mod |-> 7]
    /\ pm.iterations = 4
    /\ pm.result = 2

(***************************************************************************)
(* Ranges of the prover's output and the serialization of the challenge.   *)
(***************************************************************************)
\* C15 (well-formed prover output): for every private key in [1, Q-1] and
\* every value of the random bytes, generateProof uses a nonce in [1, Q-1]
\* and returns a commitment and a public key in [1, P-1] and a response in
\* [0, Q-1], so the verifier never rejects a returned proof as out of range.
C15_WellFormedOutput ==
    proverState = "Complete" =>
        /\ nonce \in 1..(grp.Q - 1)
        /\ BigInt(lastProof.commitment) \in 1..(grp.P - 1)
        /\ BigInt(lastProof.public_key) \in 1..(grp.P - 1)
        /\ BigInt(lastProof.response) \in 0..(grp.Q - 1)
        /\ VerifiedAsReturned => verdict # "malformed"

\* the largest key and the largest nonce were used and the verifier has
\* decided on the proof
C15_Witness ==
    /\ proverState = "Complete"
    /\ privateKey = grp.Q - 1
    /\ nonce = grp.Q - 1
    /\ randomDraw > grp.Q - 1
    /\ VerifiedAsReturned
    /\ verdict \in {"accept", "reject"}

\* C16 (unambiguous challenge serialization): the challenge input string
\* that generateProof builds from (R, y, context prefix) is built from no
\* other triple of a commitment in [1, P-1], a public key in [1, P-1] and a
\* context prefix.
C16_SerializationInjective ==
    proverState = "Complete" =>
        LET R == BigInt(lastProof.commitment)
            y == BigInt(lastProof.public_key)
            C == substring(lastProof.geohash, 6)
        IN \A R2 \in 1..(grp.P - 1), y2 \in 1..(grp.P - 1), ctx \in Contexts :
               challengeInput(R2, y2, ctx) = challengeInput(R, y, lastProof.geohash)
                   => R2 = R /\ y2 = y /\ substring(ctx, 6) = C

====
